---- MODULE Spec2Model ----
(***************************************************************************)
(* Model of the metadata-driven cache/refresh orchestrator                 *)
(* (DataRepository, src/src/database.py) for one dataset key.              *)
(*                                                                         *)
(* Time is counted in ticks, TicksPerDay ticks to a day; a date is the     *)
(* tick of its wall-clock timestamp, so a date at midnight is a multiple   *)
(* of TicksPerDay.  One get_data call is one step: the code is synchronous *)
(* and single-threaded, and the clock reads inside one call are taken at   *)
(* the same tick.                                                          *)
(***************************************************************************)
EXTENDS Integers, Sequences, FiniteSets, TLC

\* ------------------------------------------------------------------ bounds
TicksPerDay == 2
MaxRows == 2
MaxTicks == 1

\* ------------------------------------------------------- program constants
BackfillToleranceDays == 5
DatetimeMin == -1000
NoStart == -1
NoDate == -2

\* ---------------------------------------------------------------- time
Day(d) == d * TicksPerDay
OneDay == Day(1)
Midnight(t) == (t \div TicksPerDay) * TicksPerDay
\* the model starts on the last tick of day 8, so the clock crosses into day 9
InitNow == Day(8) + TicksPerDay - 1
MaxNow == InitNow + MaxTicks
Cooldowns == {1, TicksPerDay}
StartDates == {NoStart, Day(0), Day(1)}
LoaderDates == {Day(6), Day(8)}
Versions == {1, 2}

\* ---------------------------------------------------------------- tables
Row(d, v) == [date |-> d, val |-> v]
EmptyDF == [dated |-> FALSE, tz |-> FALSE, rows |-> <<>>]
IsEmpty(df) == Len(df.rows) = 0

SeqsUpTo(S, n) == UNION {[1..k -> S] : k \in 0..n}

\* What a Loader can hand back when it returns: zero rows, or up to MaxRows
\* rows in any order (duplicates allowed), all carrying the value the source
\* publishes at the time of the fetch.
LoaderTables(dated) ==
  {EmptyDF} \cup
  { [dated |-> dated, tz |-> z, rows |-> [i \in DOMAIN ds |-> Row(ds[i], v)]] :
      ds \in (SeqsUpTo(IF dated THEN LoaderDates ELSE {NoDate}, MaxRows) \ {<<>>}),
      v \in Versions,
      z \in {FALSE} }

LoaderOutcomes(dated) ==
  {[raised |-> TRUE, df |-> EmptyDF]} \cup
  {[raised |-> FALSE, df |-> t] : t \in LoaderTables(dated)}

DateSet(df) == {df.rows[i].date : i \in DOMAIN df.rows}
MinDate(df) == CHOOSE d \in DateSet(df) : \A e \in DateSet(df) : d <= e
MaxDate(df) == CHOOSE d \in DateSet(df) : \A e \in DateSet(df) : d >= e

\* ------------------------------------------------------ local artifacts
NoFile == [exists |-> FALSE, garbage |-> FALSE, df |-> EmptyDF]
GarbageFile == [exists |-> TRUE, garbage |-> TRUE, df |-> EmptyDF]
FileOf(df) == [exists |-> TRUE, garbage |-> FALSE, df |-> df]
HeaderOnly(dated) == FileOf([dated |-> dated, tz |-> FALSE, rows |-> <<>>])

NoMeta == [state |-> "absent", last_checked |-> 0]
BadMeta == [state |-> "unreadable", last_checked |-> 0]
MetaOf(t) == [state |-> "ok", last_checked |-> t]

\* applied holds the arguments and the result of the last application of one
\* of the functions that are checked on their own (the merge, the macro
\* Loader); the specifications of get_data leave it alone.
NoApplied == [fn |-> "none"]

VARIABLES file, meta, hubFile, hubMeta, now, loaderDated, lastCall, prev, applied
vars == <<file, meta, hubFile, hubMeta, now, loaderDated, lastCall, prev, applied>>

\* ------------------------------------------------------------- helpers
\* df.drop_duplicates(subset=['date'], keep='last')
DropDuplicatesKeepFirst(rows) ==
  LET keep == {i \in DOMAIN rows : \A j \in DOMAIN rows : j < i => rows[j].date # rows[i].date}
      F[k \in 0..Len(rows)] ==
        IF k = 0 THEN <<>>
        ELSE IF k \in keep THEN Append(F[k - 1], rows[k]) ELSE F[k - 1]
  IN F[Len(rows)]

DropDuplicatesKeepLast(rows) ==
  LET keep == {i \in DOMAIN rows : \A j \in DOMAIN rows : j > i => rows[j].date # rows[i].date}
      F[k \in 0..Len(rows)] ==
        IF k = 0 THEN <<>>
        ELSE IF k \in keep THEN Append(F[k - 1], rows[k]) ELSE F[k - 1]
  IN F[Len(rows)]

\* df.sort_values('date'): ascending by date
RECURSIVE InsertByDate(_, _)
InsertByDate(r, sorted) ==
  IF sorted = <<>> THEN <<r>>
  ELSE IF r.date < Head(sorted).date THEN <<r>> \o sorted
  ELSE <<Head(sorted)>> \o InsertByDate(r, Tail(sorted))

SortValues(rows) ==
  LET F[k \in 0..Len(rows)] ==
        IF k = 0 THEN <<>> ELSE InsertByDate(rows[k], F[k - 1])
  IN F[Len(rows)]

\* pd.to_datetime on the date column, then the timezone is dropped and the
\* wall-clock timestamp kept; a table without a date column is left alone.
EnsureDateFormat(df) ==
  IF df.dated THEN [df EXCEPT !.tz = FALSE] ELSE df

\* pd.read_csv + _ensure_date_format; any parse failure gives pd.DataFrame()
LoadCsvPlaceholder(f) ==
  IF f.garbage THEN [dated |-> FALSE, tz |-> FALSE, rows |-> <<Row(NoDate, 0)>>]
  ELSE EnsureDateFormat(f.df)
LoadCsv(f) ==
  IF f.garbage THEN EmptyDF ELSE EnsureDateFormat(f.df)

\* _get_last_checked (lines 161-170)
GetLastCheckedWrongKey(m) == DatetimeMin
GetLastCheckedFarFuture(m) ==
  IF m.state = "absent" THEN -DatetimeMin
  ELSE IF m.state = "unreadable" THEN -DatetimeMin
  ELSE m.last_checked
GetLastChecked(m) ==
  IF m.state = "absent" THEN DatetimeMin
  ELSE IF m.state = "unreadable" THEN DatetimeMin
  ELSE m.last_checked

\* hf_hub_download succeeds when the network call goes through and the
\* Archive holds the artifact
PullFromHubNever(net, present) == FALSE
PullFromHubAlways(net, present) == TRUE
PullFromHub(net, present) == net /\ present

\* line 48: datetime.now() - last_checked < timedelta(days=check_interval_days)
CooldownActiveFlipped(t, last_checked, check_interval) == t - last_checked > check_interval
CooldownActive(t, last_checked, check_interval) == t - last_checked < check_interval

\* lines 61-64
BackfillNeededGeq(df_existing, start_date) ==
  /\ start_date # NoStart
  /\ df_existing.dated
  /\ MinDate(df_existing) >= start_date + Day(BackfillToleranceDays)
BackfillNeededWiderTolerance(df_existing, start_date) ==
  /\ start_date # NoStart
  /\ df_existing.dated
  /\ MinDate(df_existing) > start_date + Day(BackfillToleranceDays + 1)
BackfillNeeded(df_existing, start_date) ==
  /\ start_date # NoStart
  /\ df_existing.dated
  /\ MinDate(df_existing) > start_date + Day(BackfillToleranceDays)

\* line 70
ForwardFillDueUndated(df_existing, today) ==
  MaxDate(df_existing) < today - OneDay
ForwardFillDueBeforeToday(df_existing, today) ==
  /\ df_existing.dated
  /\ MaxDate(df_existing) < today
ForwardFillDue(df_existing, today) ==
  /\ df_existing.dated
  /\ MaxDate(df_existing) < today - OneDay

\* lines 88-89
MergeKeepFirst(df_existing, df_new) ==
  [df_existing EXCEPT !.rows = SortValues(DropDuplicatesKeepFirst(df_existing.rows \o df_new.rows))]
Merge(df_existing, df_new) ==
  [df_existing EXCEPT !.rows = SortValues(DropDuplicatesKeepLast(df_existing.rows \o df_new.rows))]

\* --------------------------------------------------- outcomes of local and
\* Archive input/output inside one call: io.csvOk is df.to_csv (line 127),
\* io.metaOk the write in _update_meta (line 158), io.pushData and
\* io.pushMeta the two upload_file calls.  A step that is not reached is
\* recorded as FALSE.
NoIO == [csvOk |-> FALSE, metaOk |-> FALSE, pushData |-> FALSE, pushMeta |-> FALSE]

\* _save_and_push: csv write, meta write, dataset upload, metadata upload
SaveIOs(faults) ==
  { io \in [csvOk : BOOLEAN, metaOk : BOOLEAN, pushData : BOOLEAN, pushMeta : BOOLEAN] :
      /\ io.metaOk => io.csvOk
      /\ io.pushData => io.metaOk
      /\ io.pushMeta => io.pushData
      /\ faults \/ (io.csvOk /\ io.metaOk) }

\* _update_meta followed by _push_meta_only
MetaPushIOs(faults) ==
  { io \in [csvOk : {FALSE}, metaOk : BOOLEAN, pushData : {FALSE}, pushMeta : BOOLEAN] :
      /\ io.pushMeta => io.metaOk
      /\ faults \/ io.metaOk }

\* _update_meta alone
TouchIOs(faults) ==
  { io \in [csvOk : {FALSE}, metaOk : BOOLEAN, pushData : {FALSE}, pushMeta : {FALSE}] :
      faults \/ io.metaOk }

Returned(df) == [raised |-> FALSE, df |-> df]
Propagated == [raised |-> TRUE, df |-> EmptyDF]

\* The stores as one call sees and changes them, with the pushes it attempts
\* and the value it hands back.
Stores(f, m, hf, hm) ==
  [file |-> f, meta |-> m, hubFile |-> hf, hubMeta |-> hm, pushes |-> <<>>, ret |-> Returned(EmptyDF)]

\* _update_meta: last_checked := datetime.now()
UpdateMeta(S, t) == [S EXCEPT !.meta = MetaOf(t)]

\* _save_and_push (lines 123-144): every failure is swallowed
SaveAndPushNoTouch(S, df, io, t) ==
  IF ~io.csvOk THEN S
  ELSE IF ~io.metaOk THEN [S EXCEPT !.file = FileOf(df)]
  ELSE LET S1 == [S EXCEPT !.file = FileOf(df)]
       IN  IF ~io.pushData
           THEN [S1 EXCEPT !.pushes = <<"data">>]
           ELSE IF ~io.pushMeta
           THEN [S1 EXCEPT !.hubFile = S1.file, !.pushes = <<"data", "meta">>]
           ELSE [S1 EXCEPT !.hubFile = S1.file, !.hubMeta = S1.meta,
                           !.pushes = <<"data", "meta">>]

SaveAndPushUploadFirst(S, df, io, t) ==
  IF ~io.csvOk THEN S
  ELSE IF ~io.metaOk THEN [S EXCEPT !.file = FileOf(df)]
  ELSE IF ~io.pushData
  THEN [S EXCEPT !.file = FileOf(df), !.pushes = <<"data">>]
  ELSE LET S1 == [UpdateMeta(S, t) EXCEPT !.file = FileOf(df)]
       IN  IF ~io.pushMeta
           THEN [S1 EXCEPT !.hubFile = S1.file, !.pushes = <<"data", "meta">>]
           ELSE [S1 EXCEPT !.hubFile = S1.file, !.hubMeta = S1.meta,
                           !.pushes = <<"data", "meta">>]

SaveAndPushTouchFirst(S, df, io, t) ==
  IF ~io.csvOk THEN UpdateMeta(S, t)
  ELSE IF ~io.metaOk THEN [S EXCEPT !.file = FileOf(df)]
  ELSE LET S1 == [UpdateMeta(S, t) EXCEPT !.file = FileOf(df)]
       IN  IF ~io.pushData
           THEN [S1 EXCEPT !.pushes = <<"data">>]
           ELSE IF ~io.pushMeta
           THEN [S1 EXCEPT !.hubFile = S1.file, !.pushes = <<"data", "meta">>]
           ELSE [S1 EXCEPT !.hubFile = S1.file, !.hubMeta = S1.meta,
                           !.pushes = <<"data", "meta">>]
SaveAndPush(S, df, io, t) ==
  IF ~io.csvOk THEN S
  ELSE IF ~io.metaOk THEN [S EXCEPT !.file = FileOf(df)]
  ELSE LET S1 == [UpdateMeta(S, t) EXCEPT !.file = FileOf(df)]
       IN  IF ~io.pushData
           THEN [S1 EXCEPT !.pushes = <<"data">>]
           ELSE IF ~io.pushMeta
           THEN [S1 EXCEPT !.hubFile = S1.file, !.pushes = <<"data", "meta">>]
           ELSE [S1 EXCEPT !.hubFile = S1.file, !.hubMeta = S1.meta,
                           !.pushes = <<"data", "meta">>]

\* _push_meta_only (lines 146-153)
PushMetaOnlyBoth(S, io) ==
  IF io.pushMeta
  THEN [S EXCEPT !.hubFile = S.file, !.hubMeta = S.meta, !.pushes = <<"data", "meta">>]
  ELSE [S EXCEPT !.pushes = <<"data">>]
PushMetaOnly(S, io) ==
  IF io.pushMeta
  THEN [S EXCEPT !.hubMeta = S.meta, !.pushes = <<"meta">>]
  ELSE [S EXCEPT !.pushes = <<"meta">>]

\* _fetch_and_save (lines 112-121); out is what loader.fetch_data did
FetchAndSaveNoCatch(S, out, io, t) ==
  IF out.raised THEN [S EXCEPT !.ret = Propagated]
  ELSE IF ~IsEmpty(out.df)
  THEN LET df == EnsureDateFormat(out.df)
       IN  [SaveAndPush(S, df, io, t) EXCEPT !.ret = Returned(df)]
  ELSE [S EXCEPT !.ret = Returned(out.df)]

FetchAndSaveNoSave(S, out, io, t) ==
  IF out.raised THEN [S EXCEPT !.ret = Returned(EmptyDF)]
  ELSE [S EXCEPT !.ret = Returned(EnsureDateFormat(out.df))]

FetchAndSaveEmptyToo(S, out, io, t) ==
  IF out.raised THEN [S EXCEPT !.ret = Returned(EmptyDF)]
  ELSE IF ~IsEmpty(out.df)
  THEN LET df == EnsureDateFormat(out.df)
       IN  [SaveAndPush(S, df, io, t) EXCEPT !.ret = Returned(df)]
  ELSE [S EXCEPT !.file = FileOf(out.df), !.ret = Returned(out.df)]

FetchAndSave(S, out, io, t) ==
  IF out.raised THEN [S EXCEPT !.ret = Returned(EmptyDF)]
  ELSE IF ~IsEmpty(out.df)
  THEN LET df == EnsureDateFormat(out.df)
       IN  [SaveAndPush(S, df, io, t) EXCEPT !.ret = Returned(df)]
  ELSE [S EXCEPT !.ret = Returned(out.df)]

\* lines 83-99 under the try of line 56 and the except of lines 106-108
IncrementalFetchNoTouch(S, df_existing, out, io, t) ==
  IF out.raised THEN [S EXCEPT !.ret = Returned(df_existing)]
  ELSE IF ~IsEmpty(out.df)
  THEN LET df_combined == Merge(df_existing, EnsureDateFormat(out.df))
       IN  [SaveAndPush(S, df_combined, io, t) EXCEPT !.ret = Returned(df_combined)]
  ELSE [S EXCEPT !.ret = Returned(df_existing)]

IncrementalFetchTouchOnRaise(S, df_existing, out, io, t) ==
  IF out.raised THEN [UpdateMeta(S, t) EXCEPT !.ret = Returned(df_existing)]
  ELSE IF ~IsEmpty(out.df)
  THEN LET df_combined == Merge(df_existing, EnsureDateFormat(out.df))
       IN  [SaveAndPush(S, df_combined, io, t) EXCEPT !.ret = Returned(df_combined)]
  ELSE IF ~io.metaOk THEN [S EXCEPT !.ret = Returned(df_existing)]
  ELSE [PushMetaOnly(UpdateMeta(S, t), io) EXCEPT !.ret = Returned(df_existing)]

IncrementalFetch(S, df_existing, out, io, t) ==
  IF out.raised THEN [S EXCEPT !.ret = Returned(df_existing)]
  ELSE IF ~IsEmpty(out.df)
  THEN LET df_combined == Merge(df_existing, EnsureDateFormat(out.df))
       IN  [SaveAndPush(S, df_combined, io, t) EXCEPT !.ret = Returned(df_combined)]
  ELSE IF ~io.metaOk THEN [S EXCEPT !.ret = Returned(df_existing)]
  ELSE [PushMetaOnly(UpdateMeta(S, t), io) EXCEPT !.ret = Returned(df_existing)]

\* lines 75-76 and 103-104: record the check, hand back the cached table
TouchAndReturnNoTouch(S, df_existing, io, t) == [S EXCEPT !.ret = Returned(df_existing)]
TouchAndReturn(S, df_existing, io, t) ==
  IF ~io.metaOk THEN [S EXCEPT !.ret = Returned(df_existing)]
  ELSE [UpdateMeta(S, t) EXCEPT !.ret = Returned(df_existing)]

\* ------------------------------------------------------------ one call
NoCall ==
  [path |-> "none", cooldown |-> 0, start_date |-> NoStart, at |-> 0,
   preFile |-> NoFile, preMeta |-> NoMeta, preHubFile |-> NoFile, preHubMeta |-> NoMeta,
   netData |-> FALSE, netMeta |-> FALSE, recovered |-> FALSE, existing |-> EmptyDF,
   loaderCalls |-> <<>>, loaderOut |-> "none", fetched |-> EmptyDF,
   io |-> NoIO, pushes |-> <<>>, ret |-> Returned(EmptyDF), end |-> 0]

NoLoader == [raised |-> FALSE, df |-> EmptyDF]

\* next_day.strftime('%Y-%m-%d') (line 83): the day of next_day, time dropped
LoaderStart(next_day) == Midnight(next_day)

Commit(call, S, path, existing, loaderCalls, out, io, t) ==
  /\ file' = S.file
  /\ meta' = S.meta
  /\ hubFile' = S.hubFile
  /\ hubMeta' = S.hubMeta
  /\ now' = t
  /\ UNCHANGED <<loaderDated, applied>>
  /\ lastCall' = [call EXCEPT
        !.path = path,
        !.existing = existing,
        !.loaderCalls = loaderCalls,
        !.loaderOut = IF loaderCalls = <<>> THEN "none"
                      ELSE IF out.raised THEN "raise"
                      ELSE IF IsEmpty(out.df) THEN "empty" ELSE "rows",
        !.fetched = IF out.raised THEN EmptyDF ELSE EnsureDateFormat(out.df),
        !.io = io,
        !.pushes = S.pushes,
        !.ret = S.ret,
        !.end = t]

\* return self._fetch_and_save(..., start_date=start_date) (lines 36, 42, 66)
FullFetchAskedTwice(call, S, path, existing, faults) ==
  \E out \in LoaderOutcomes(loaderDated) :
    \E io \in (IF out.raised \/ IsEmpty(out.df) THEN {NoIO} ELSE SaveIOs(faults)) :
      Commit(call, FetchAndSave(S, out, io, now), path, existing,
             IF out.raised \/ ~IsEmpty(out.df) THEN <<call.start_date>>
             ELSE <<call.start_date, call.start_date>>, out, io, now)
FullFetch(call, S, path, existing, faults) ==
  \E out \in LoaderOutcomes(loaderDated) :
    \E io \in (IF out.raised \/ IsEmpty(out.df) THEN {NoIO} ELSE SaveIOs(faults)) :
      Commit(call, FetchAndSave(S, out, io, now), path, existing,
             <<call.start_date>>, out, io, now)

\* lines 38-108, with the local artifacts as S holds them
Present(call, S, faults) ==
  LET df_existing == LoadCsv(S.file) IN
  IF IsEmpty(df_existing)
  THEN FullFetch(call, S, "empty", df_existing, faults)
  ELSE
  LET last_checked == GetLastChecked(S.meta) IN
  IF CooldownActive(now, last_checked, call.cooldown)
  THEN Commit(call, [S EXCEPT !.ret = Returned(df_existing)], "cooldown", df_existing,
              <<>>, NoLoader, NoIO, now)
  ELSE
  LET today == Midnight(now) IN
  IF BackfillNeeded(df_existing, call.start_date)
  THEN FullFetch(call, S, "backfill", df_existing, faults)
  ELSE IF ForwardFillDue(df_existing, today)
  THEN LET next_day == MaxDate(df_existing) + OneDay IN
       IF next_day > now
       THEN \E io \in TouchIOs(faults) :
              Commit(call, TouchAndReturn(S, df_existing, io, now), "future", df_existing,
                     <<>>, NoLoader, io, now)
       ELSE \E out \in LoaderOutcomes(TRUE) :
            \E io \in (IF out.raised THEN {NoIO}
                       ELSE IF IsEmpty(out.df) THEN MetaPushIOs(faults)
                       ELSE SaveIOs(faults)) :
              Commit(call, IncrementalFetch(S, df_existing, out, io, now),
                     "incremental", df_existing, <<LoaderStart(next_day)>>, out, io, now)
  ELSE \E io \in TouchIOs(faults) :
         Commit(call, TouchAndReturn(S, df_existing, io, now), "fresh", df_existing,
                <<>>, NoLoader, io, now)

\* get_data (lines 24-108) with the arguments drawn from the given sets
Call(cooldowns, starts, faults) ==
  \E check_interval \in cooldowns, start_date \in starts :
    LET call == [NoCall EXCEPT
                   !.cooldown = check_interval, !.start_date = start_date, !.at = now,
                   !.preFile = file, !.preMeta = meta,
                   !.preHubFile = hubFile, !.preHubMeta = hubMeta]
        S == Stores(file, meta, hubFile, hubMeta)
    IN
    IF ~file.exists
    THEN \E netData \in BOOLEAN :
           IF PullFromHub(netData, hubFile.exists)
           THEN \E netMeta \in BOOLEAN :
                  LET S1 == [S EXCEPT
                               !.file = hubFile,
                               !.meta = IF PullFromHub(netMeta, hubMeta.state # "absent")
                                        THEN hubMeta ELSE meta]
                  IN  Present([call EXCEPT !.netData = netData, !.netMeta = netMeta,
                                           !.recovered = TRUE], S1, faults)
           ELSE FullFetch([call EXCEPT !.netData = netData], S, "absent", EmptyDF, faults)
    ELSE Present(call, S, faults)

\* a consumer that holds no earlier result calls get_data
GetData(faults) ==
  /\ lastCall = NoCall
  /\ prev' = prev
  /\ Call(Cooldowns, StartDates, faults)

\* the consumer of the last result calls get_data again, same key, same arguments
GetDataAgain ==
  /\ lastCall # NoCall
  /\ prev = NoCall
  /\ prev' = lastCall
  /\ Call({lastCall.cooldown}, {lastCall.start_date}, FALSE)

\* TickerManager.force_update: the local dataset artifact is removed
ForceUpdateWithMeta ==
  /\ lastCall = NoCall
  /\ file.exists
  /\ file' = NoFile
  /\ meta' = NoMeta
  /\ UNCHANGED <<hubFile, hubMeta, now, loaderDated, lastCall, prev, applied>>
ForceUpdate ==
  /\ lastCall = NoCall
  /\ file.exists
  /\ file' = NoFile
  /\ UNCHANGED <<meta, hubFile, hubMeta, now, loaderDated, lastCall, prev, applied>>

\* the wall clock advances between calls
Tick ==
  /\ lastCall = NoCall
  /\ now < MaxNow
  /\ now' = now + 1
  /\ UNCHANGED <<file, meta, hubFile, hubMeta, loaderDated, lastCall, prev, applied>>

\* the wall clock advances while the consumer still holds the last result
Wait ==
  /\ lastCall # NoCall
  /\ prev = NoCall
  /\ now < MaxNow
  /\ now' = now + 1
  /\ UNCHANGED <<file, meta, hubFile, hubMeta, loaderDated, lastCall, prev, applied>>

\* the consumer takes the returned table; the record of the call is dropped
Consume ==
  /\ lastCall # NoCall
  /\ lastCall' = NoCall
  /\ prev' = NoCall
  /\ UNCHANGED <<file, meta, hubFile, hubMeta, now, loaderDated, applied>>

\* ------------------------------------------------------------- initial
\* What an earlier deployment may have left in the Archive.
InitHubTable(dated) ==
  IF dated
  THEN [dated |-> TRUE, tz |-> FALSE, rows |-> <<Row(Day(6), 1)>>]
  ELSE [dated |-> FALSE, tz |-> FALSE, rows |-> <<Row(NoDate, 1)>>]

Init ==
  /\ loaderDated \in BOOLEAN
  /\ file \in {NoFile, GarbageFile, HeaderOnly(loaderDated)}
  /\ meta \in {NoMeta, BadMeta}
  /\ \/ hubFile = NoFile /\ hubMeta = NoMeta
     \/ hubFile = FileOf(InitHubTable(loaderDated)) /\ hubMeta \in {NoMeta, MetaOf(InitNow - 1)}
  /\ now = InitNow
  /\ lastCall = NoCall
  /\ prev = NoCall
  /\ applied = NoApplied

Next == GetData(FALSE) \/ Consume \/ ForceUpdate \/ Tick
Spec == Init /\ [][Next]_vars

\* What an earlier run of the process may have left in the data directory;
\* one table ends with a row stamped after midnight of day 8 (the date column
\* keeps the time of day the Loader delivered).
LeftoverTables(dated) ==
  IF dated
  THEN { [dated |-> TRUE, tz |-> FALSE, rows |-> <<Row(Day(6), 1)>>],
         [dated |-> TRUE, tz |-> FALSE, rows |-> <<Row(Day(8), 1)>>],
         [dated |-> TRUE, tz |-> FALSE, rows |-> <<Row(Day(8) + 1, 1)>>],
         [dated |-> TRUE, tz |-> FALSE, rows |-> <<Row(Day(6), 1), Row(Day(8), 2)>>] }
  ELSE { [dated |-> FALSE, tz |-> FALSE, rows |-> <<Row(NoDate, 1)>>] }

InitTwice ==
  /\ loaderDated \in BOOLEAN
  /\ file \in {NoFile, GarbageFile, HeaderOnly(loaderDated)}
            \cup {FileOf(t) : t \in LeftoverTables(loaderDated)}
  /\ meta \in {NoMeta, BadMeta, MetaOf(InitNow - 1)}
  /\ \/ hubFile = NoFile /\ hubMeta = NoMeta
     \/ hubFile = FileOf(InitHubTable(loaderDated)) /\ hubMeta \in {NoMeta, MetaOf(InitNow - 1)}
  /\ now = InitNow
  /\ lastCall = NoCall
  /\ prev = NoCall
  /\ applied = NoApplied

\* two calls in a row for the same key with the same arguments, the first
\* one made on what the process finds when it starts
NextTwice == GetData(FALSE) \/ Wait \/ GetDataAgain \/ ForceUpdate \/ Tick
SpecTwice == InitTwice /\ [][NextTwice]_vars

\* the same program with local writes that can fail
NextIO == GetData(TRUE) \/ Consume \/ ForceUpdate \/ Tick
SpecIO == Init /\ [][NextIO]_vars

\* a consumer may also pass a cooldown longer than the time that has gone by
\* since datetime.min (year 1), e.g. to say "never refresh"
FarCooldown == MaxNow - DatetimeMin + 1

GetDataFarCooldown ==
  /\ lastCall = NoCall
  /\ prev' = prev
  /\ Call(Cooldowns \cup {FarCooldown}, StartDates, FALSE)

NextFarCooldown == GetDataFarCooldown \/ Consume \/ ForceUpdate \/ Tick
SpecFarCooldown == InitTwice /\ [][NextFarCooldown]_vars

\* -------------------------------------------------- two overlapping calls
\* Two pages that share the data directory call get_data for the same key.
\* get_data takes no lock, so a call is two steps here: up to the point where
\* it hands control to the Loader (or returns without it), and from the
\* Loader's answer to its return.  lastCall is the call of the first page,
\* prev the call of the second; a call waiting for the Loader has
\* loaderOut = "pending".
PageCall(i) == IF i = 1 THEN lastCall ELSE prev
SetPageCall(i, c) ==
  IF i = 1 THEN lastCall' = c /\ prev' = prev
           ELSE prev' = c /\ lastCall' = lastCall
Pending(c) == c.loaderOut = "pending"

\* both pages run the same consumer code, so they pass the same arguments
PageCooldowns(i) ==
  IF PageCall(3 - i) = NoCall THEN Cooldowns ELSE {PageCall(3 - i).cooldown}
PageStartDates(i) ==
  IF PageCall(3 - i) = NoCall THEN StartDates ELSE {PageCall(3 - i).start_date}

\* lines 38-83: load, cooldown check, backfill and forward-fill checks
OverlapBegin(i) ==
  /\ PageCall(i) = NoCall
  /\ file.exists
  /\ \E check_interval \in PageCooldowns(i), start_date \in PageStartDates(i) :
       LET call == [NoCall EXCEPT
                      !.cooldown = check_interval, !.start_date = start_date, !.at = now,
                      !.preFile = file, !.preMeta = meta,
                      !.preHubFile = hubFile, !.preHubMeta = hubMeta]
           S == Stores(file, meta, hubFile, hubMeta)
           df_existing == LoadCsv(file)
           InFlight(path, start) ==
             /\ meta' = meta
             /\ SetPageCall(i, [call EXCEPT !.path = path, !.existing = df_existing,
                                            !.loaderCalls = <<start>>, !.loaderOut = "pending"])
           Done(T, path) ==
             /\ meta' = T.meta
             /\ SetPageCall(i, [call EXCEPT !.path = path, !.existing = df_existing,
                                            !.ret = T.ret, !.end = now])
           touched == [NoIO EXCEPT !.metaOk = TRUE]
       IN  IF IsEmpty(df_existing) THEN InFlight("empty", start_date)
           ELSE IF CooldownActive(now, GetLastChecked(meta), check_interval)
           THEN Done([S EXCEPT !.ret = Returned(df_existing)], "cooldown")
           ELSE IF BackfillNeeded(df_existing, start_date) THEN InFlight("backfill", start_date)
           ELSE IF ForwardFillDue(df_existing, Midnight(now))
           THEN LET next_day == MaxDate(df_existing) + OneDay IN
                IF next_day > now
                THEN Done(TouchAndReturn(S, df_existing, touched, now), "future")
                ELSE InFlight("incremental", LoaderStart(next_day))
           ELSE Done(TouchAndReturn(S, df_existing, touched, now), "fresh")
  /\ UNCHANGED <<file, hubFile, hubMeta, now, loaderDated, applied>>

\* lines 83-99 and 112-121 from the Loader's answer on: the table loaded
\* before the Loader call is merged and written over whatever is there now
OverlapFinish(i) ==
  /\ Pending(PageCall(i))
  /\ LET c == PageCall(i)
         S == Stores(file, meta, hubFile, hubMeta)
         incremental == c.path = "incremental"
     IN  \E out \in LoaderOutcomes(incremental \/ loaderDated) :
         \E io \in (IF out.raised THEN {NoIO}
                    ELSE IF IsEmpty(out.df)
                    THEN (IF incremental THEN MetaPushIOs(FALSE) ELSE {NoIO})
                    ELSE SaveIOs(FALSE)) :
           LET T == IF incremental
                    THEN IncrementalFetch(S, c.existing, out, io, now)
                    ELSE FetchAndSave(S, out, io, now)
           IN  /\ file' = T.file
               /\ meta' = T.meta
               /\ hubFile' = T.hubFile
               /\ hubMeta' = T.hubMeta
               /\ SetPageCall(i, [c EXCEPT
                     !.loaderOut = IF out.raised THEN "raise"
                                   ELSE IF IsEmpty(out.df) THEN "empty" ELSE "rows",
                     !.fetched = IF out.raised THEN EmptyDF ELSE EnsureDateFormat(out.df),
                     !.io = io, !.pushes = T.pushes, !.ret = T.ret, !.end = now])
  /\ UNCHANGED <<now, loaderDated, applied>>

\* the wall clock advances while calls are under way
Elapse ==
  /\ now < MaxNow
  /\ now' = now + 1
  /\ UNCHANGED <<file, meta, hubFile, hubMeta, loaderDated, lastCall, prev, applied>>

\* the pages start on a dataset that is present and nonempty, with nothing
\* in the Archive yet
InitOverlap ==
  /\ InitTwice
  /\ file.exists /\ ~IsEmpty(LoadCsv(file))
  /\ hubFile = NoFile

NextOverlap == (\E i \in {1, 2} : OverlapBegin(i) \/ OverlapFinish(i)) \/ Elapse
SpecOverlap == InitOverlap /\ [][NextOverlap]_vars

\* ------------------------------------------------- functions on their own
\* The stores stay empty while one of the functions below is applied.
InitPure ==
  /\ file = NoFile /\ meta = NoMeta
  /\ hubFile = NoFile /\ hubMeta = NoMeta
  /\ now = InitNow
  /\ loaderDated = TRUE
  /\ lastCall = NoCall
  /\ prev = NoCall
  /\ applied = NoApplied

\* the caller takes the result
AppliedReturn ==
  /\ applied # NoApplied
  /\ applied' = NoApplied
  /\ UNCHANGED <<file, meta, hubFile, hubMeta, now, loaderDated, lastCall, prev>>

\* ------------------------------------- OECD_CSV_Loader (macro_loader.py)
\* The cutover 2021-01-01 is day 7 of the model, 2020-12-31 the day before,
\* the default start 2010-01-01 day 5.
SplitDate == Day(7)
FredLast == SplitDate - OneDay
DefaultStart == Day(5)
NoEnd == -3
FredValue == 1
EstatValue == 2
MacroStarts == {NoStart, Day(6), Day(7), Day(9), Day(10)}
MacroEnds == {NoEnd, Day(6), Day(7), Day(8)}
ProviderDates == {Day(5), Day(6), Day(7), Day(8)}

MinOf(a, b) == IF a <= b THEN a ELSE b
MaxOf(a, b) == IF a >= b THEN a ELSE b

\* what self.fred.get_series delivers, as a frame indexed by date (line 93):
\* each date once, ascending
FredTables ==
  { [i \in DOMAIN ds |-> Row(ds[i], FredValue)] :
      ds \in {q \in SeqsUpTo(ProviderDates, MaxRows) :
                \A i, j \in DOMAIN q : i < j => q[i] < q[j]} }

\* the rows parsed from the yearly e-Stat sheets, concatenated (line 135)
EstatTables ==
  { [i \in DOMAIN ds |-> Row(ds[i], EstatValue)] : ds \in SeqsUpTo(ProviderDates, MaxRows) }

\* lines 44-46 and 53-55
FredEnd(end_dt) == MinOf(end_dt, FredLast)
FredAsked(start_dt, end_dt) == start_dt < SplitDate /\ start_dt <= FredEnd(end_dt)
EstatStart(start_dt) == MaxOf(start_dt, SplitDate)
EstatAskedNoRangeCheck(start_dt, end_dt) == end_dt >= SplitDate
EstatAsked(start_dt, end_dt) == end_dt >= SplitDate /\ EstatStart(start_dt) <= end_dt

\* _fetch_from_fred, line 94: df[df['date'] >= start_date]
FetchFromFred(start_date, end_date, raw) ==
  SelectSeq(raw, LAMBDA r : r.date >= start_date)

\* _fetch_from_estat, lines 134-137
FetchFromEstat(start_date, end_date, raw) ==
  IF raw = <<>> THEN <<>>
  ELSE SelectSeq(SortValues(DropDuplicatesKeepLast(raw)),
                 LAMBDA r : r.date >= start_date /\ r.date <= end_date)

\* lines 62-73
StitchKeepFirst(df_fred, df_estat, start_date, end_date) ==
  IF df_fred = <<>> /\ df_estat = <<>> THEN <<>>
  ELSE SelectSeq(SortValues(DropDuplicatesKeepFirst(df_fred \o df_estat)),
                 LAMBDA r : r.date >= start_date /\ r.date <= end_date)
Stitch(df_fred, df_estat, start_date, end_date) ==
  IF df_fred = <<>> /\ df_estat = <<>> THEN <<>>
  ELSE SelectSeq(SortValues(DropDuplicatesKeepLast(df_fred \o df_estat)),
                 LAMBDA r : r.date >= start_date /\ r.date <= end_date)

\* fetch_data (lines 31-73) called at time t; fredRaw and estatRaw are what
\* the providers deliver if they are asked
MacroFetchData(start_arg, end_arg, fredRaw, estatRaw, t) ==
  LET start_date == IF start_arg = NoStart THEN DefaultStart ELSE start_arg
      end_date == IF end_arg = NoEnd THEN Midnight(t) ELSE end_arg
      askFred == FredAsked(start_date, end_date)
      askEstat == EstatAsked(start_date, end_date)
      df_fred == IF askFred THEN FetchFromFred(start_date, FredEnd(end_date), fredRaw) ELSE <<>>
      df_estat == IF askEstat
                  THEN FetchFromEstat(EstatStart(start_date), end_date, estatRaw) ELSE <<>>
  IN  [fn |-> "fetch_data", at |-> t, endGiven |-> end_arg # NoEnd,
       start |-> start_date, end |-> end_date,
       fredQuery |-> IF askFred THEN <<start_date, FredEnd(end_date)>> ELSE <<>>,
       estatQuery |-> IF askEstat THEN <<EstatStart(start_date), end_date>> ELSE <<>>,
       fredRows |-> df_fred, estatRows |-> df_estat,
       result |-> Stitch(df_fred, df_estat, start_date, end_date)]

MacroFetch ==
  /\ applied = NoApplied
  /\ \E start_arg \in MacroStarts, end_arg \in MacroEnds,
        fredRaw \in FredTables, estatRaw \in EstatTables :
       applied' = MacroFetchData(start_arg, end_arg, fredRaw, estatRaw, now)
  /\ UNCHANGED <<file, meta, hubFile, hubMeta, now, loaderDated, lastCall, prev>>

NextMacro == MacroFetch \/ AppliedReturn \/ Tick
SpecMacro == InitPure /\ [][NextMacro]_vars

\* ------------------------------ load, merge, save, load (database.py)
\* Timestamps a table can carry: midnight of day 8, a later time of day 8,
\* midnight of day 9.
MergeTimes == {Day(8), Day(8) + 1, Day(9)}

\* A dataset as an earlier save left it: ascending, one row per calendar day.
CachedTables ==
  { [dated |-> TRUE, tz |-> FALSE, rows |-> [i \in DOMAIN ds |-> Row(ds[i], 1)]] :
      ds \in { s \in (SeqsUpTo(MergeTimes, MaxRows) \ {<<>>}) :
                 \A i, j \in DOMAIN s : i < j => Midnight(s[i]) < Midnight(s[j]) } }

\* What the Loader hands to the merge: at least one row, with or without a
\* timezone on the date column.
FetchedTables ==
  { [dated |-> TRUE, tz |-> z, rows |-> [i \in DOMAIN ds |-> Row(ds[i], 2)]] :
      ds \in (SeqsUpTo(MergeTimes, MaxRows) \ {<<>>}), z \in BOOLEAN }

\* _load_csv of the file (line 38), _ensure_date_format of the Loader's rows
\* (line 86), the merge (lines 88-89), df.to_csv (line 127) and the _load_csv
\* of the next call.
MergeAndReload(cached, fetched) ==
  LET df_existing == LoadCsv(FileOf(cached))
      df_new      == EnsureDateFormat(fetched)
      df_combined == Merge(df_existing, df_new)
  IN [fn |-> "merge", existing |-> df_existing, new |-> df_new,
      combined |-> df_combined, reloaded |-> LoadCsv(FileOf(df_combined))]

MergeApply ==
  /\ applied = NoApplied
  /\ \E cached \in CachedTables, fetched \in FetchedTables :
       applied' = MergeAndReload(cached, fetched)
  /\ UNCHANGED <<file, meta, hubFile, hubMeta, now, loaderDated, lastCall, prev>>

NextMerge == MergeApply \/ AppliedReturn \/ Tick
SpecMerge == InitPure /\ [][NextMerge]_vars

\* ------------------------------------------ forward-fill on old datasets
\* Timestamps a dataset left by an earlier run can end with: midnights and
\* later times of the days 6 to 9.
ForwardTimes == {Day(d) + k : d \in 6..9, k \in {0, 1}}

ForwardTables ==
  { [dated |-> TRUE, tz |-> FALSE, rows |-> [i \in DOMAIN ds |-> Row(ds[i], 1)]] :
      ds \in { s \in (SeqsUpTo(ForwardTimes, MaxRows) \ {<<>>}) :
                 \A i, j \in DOMAIN s : i < j => s[i] < s[j] } }

InitForward ==
  /\ loaderDated = TRUE
  /\ file \in {FileOf(t) : t \in ForwardTables}
  /\ meta \in {NoMeta, MetaOf(InitNow - 1)}
  /\ hubFile = NoFile /\ hubMeta = NoMeta
  /\ now = InitNow
  /\ lastCall = NoCall
  /\ prev = NoCall
  /\ applied = NoApplied

NextForward == GetData(FALSE) \/ Consume \/ Tick
SpecForward == InitForward /\ [][NextForward]_vars

\* ------------------------------------ a call after a call that met faults
\* The first call runs with local and Archive input/output failures, the
\* second one, same key and arguments, without.
InitRetry == InitTwice /\ loaderDated /\ meta # BadMeta

NextRetry == GetData(TRUE) \/ Wait \/ GetDataAgain
SpecRetry == InitRetry /\ [][NextRetry]_vars

\* ================================================================ claims
\* What a finished call shows of the state it started from (lastCall holds
\* the local and Archive artifacts as they were when the call began).
Called == lastCall # NoCall
CachedBefore == IF lastCall.preFile.garbage THEN EmptyDF ELSE lastCall.preFile.df
PresentNonempty == lastCall.preFile.exists /\ Len(CachedBefore.rows) > 0
LastCheckedBefore ==
  IF lastCall.preMeta.state = "ok" THEN lastCall.preMeta.last_checked ELSE DatetimeMin
WithinCooldown == lastCall.at - LastCheckedBefore < lastCall.cooldown
LocalUnchanged == file = lastCall.preFile /\ meta = lastCall.preMeta
HubUnchanged == hubFile = lastCall.preHubFile /\ hubMeta = lastCall.preHubMeta
StrictlyAscending(rows) ==
  \A i, j \in DOMAIN rows : i < j => rows[i].date < rows[j].date

\* C1: every call of get_data ends by handing back a table and no error
\* leaves it, whatever the local dataset, the metadata record, the Loader,
\* the Archive and the local writes do.
C1_NeverFails ==
  Called => /\ ~lastCall.ret.raised
            /\ lastCall.ret.df.rows \in Seq([date : Int, val : Int])

\* C1 witness: the Loader raised on a Full Fetch of an absent dataset and the
\* call still returned (an empty table).
C1_Witness ==
  /\ Called
  /\ ~lastCall.preFile.exists
  /\ lastCall.loaderOut = "raise"
  /\ lastCall.ret = Returned(EmptyDF)

\* C2: a present, nonempty dataset, the cooldown expired and the Loader
\* raising during the refresh (backfill Full Fetch or forward-fill) gives
\* back exactly the cached table and leaves dataset and last_checked alone.
C2_LoaderRaiseReturnsCached ==
  (Called /\ PresentNonempty /\ ~WithinCooldown /\ lastCall.loaderOut = "raise")
    => /\ lastCall.ret = Returned(CachedBefore)
       /\ LocalUnchanged

\* C3: within the cooldown a present, nonempty dataset is handed back
\* unchanged for every requested start: no Loader call, no change of
\* last_checked or of the dataset, nothing pushed to the Archive.
C3_ShortCircuit ==
  (Called /\ PresentNonempty /\ WithinCooldown)
    => /\ lastCall.ret = Returned(CachedBefore)
       /\ lastCall.loaderCalls = <<>>
       /\ LocalUnchanged
       /\ lastCall.pushes = <<>>
       /\ HubUnchanged

\* C3 witness: a call within the cooldown whose requested start lies more
\* than the backfill tolerance before the cached minimum date.
C3_Witness ==
  /\ Called /\ PresentNonempty /\ WithinCooldown
  /\ CachedBefore.dated
  /\ lastCall.start_date # NoStart
  /\ MinDate(CachedBefore) > lastCall.start_date + Day(BackfillToleranceDays)
  /\ lastCall.ret = Returned(CachedBefore)
  /\ lastCall.loaderCalls = <<>>

\* C4 as stated: whatever the first call did, a second call with the same
\* arguments made less than the cooldown after the first makes no Loader
\* call and hands back the table the first call handed back.
C4_AnyFirstCall ==
  (Called /\ prev # NoCall /\ lastCall.at - prev.at < lastCall.cooldown)
    => /\ lastCall.loaderCalls = <<>>
       /\ lastCall.ret = prev.ret

\* C4 amended: when the first call leaves the dataset present and nonempty
\* and the second call, same arguments, comes less than the cooldown after
\* the last_checked the first call left, the second call makes no Loader
\* call and hands back the table the first call handed back.
C4_SecondCallWithinCooldown ==
  (Called /\ prev # NoCall /\ PresentNonempty /\ WithinCooldown)
    => /\ lastCall.loaderCalls = <<>>
       /\ lastCall.ret = prev.ret

\* C4 witness: the first call fetched and saved rows, the second call, within
\* the cooldown that fetch started, returned the same table with no Loader call.
C4_Witness ==
  /\ Called /\ prev # NoCall /\ PresentNonempty /\ WithinCooldown
  /\ prev.loaderOut = "rows"
  /\ lastCall.preMeta = MetaOf(prev.end)
  /\ lastCall.loaderCalls = <<>>
  /\ lastCall.ret = prev.ret

\* C5: an incremental refresh that receives rows returns and saves the
\* union of cached and fetched dates, each date once, ascending, and a date
\* that was fetched carries the fetched value.
C5_MergeCorrect ==
  (Called /\ lastCall.path = "incremental" /\ lastCall.loaderOut = "rows")
    => LET cached == lastCall.existing.rows
           fetched == lastCall.fetched.rows
           merged == lastCall.ret.df.rows
       IN  /\ DateSet(lastCall.ret.df) = DateSet(lastCall.existing) \cup DateSet(lastCall.fetched)
           /\ StrictlyAscending(merged)
           /\ \A i \in DOMAIN merged :
                IF merged[i].date \in DateSet(lastCall.fetched)
                THEN \E k \in DOMAIN fetched :
                       /\ fetched[k] = merged[i]
                       /\ \A l \in DOMAIN fetched : l > k => fetched[l].date # fetched[k].date
                ELSE \E k \in DOMAIN cached : cached[k] = merged[i]
           /\ file = FileOf(lastCall.ret.df)

\* C5 witness: a date both cached and fetched, with different values, carries
\* the fetched value in the merged table.
C5_Witness ==
  /\ Called /\ lastCall.path = "incremental" /\ lastCall.loaderOut = "rows"
  /\ \E i \in DOMAIN lastCall.existing.rows, k \in DOMAIN lastCall.fetched.rows :
       /\ lastCall.existing.rows[i].date = lastCall.fetched.rows[k].date
       /\ lastCall.existing.rows[i].val # lastCall.fetched.rows[k].val
       /\ \E m \in DOMAIN lastCall.ret.df.rows : lastCall.ret.df.rows[m] = lastCall.fetched.rows[k]
  /\ Len(lastCall.ret.df.rows) > 1

\* C6: a cooldown-expired incremental refresh in which the Loader returns
\* zero rows sets last_checked to the current time, leaves the local dataset
\* as it is and hands back the cached table.
C6_ZeroRowsTouches ==
  (Called /\ lastCall.path = "incremental" /\ lastCall.loaderOut = "empty")
    => /\ meta = MetaOf(now)
       /\ now = lastCall.at
       /\ file = (IF lastCall.recovered THEN lastCall.preHubFile ELSE lastCall.preFile)
       /\ lastCall.ret = Returned(lastCall.existing)

\* C6 witness: such a refresh on a local dataset whose last_checked was older.
C6_Witness ==
  /\ Called /\ PresentNonempty /\ ~WithinCooldown
  /\ lastCall.path = "incremental" /\ lastCall.loaderOut = "empty"
  /\ lastCall.preMeta.state = "ok"
  /\ lastCall.preMeta.last_checked < now
  /\ meta = MetaOf(now)
  /\ file = lastCall.preFile

\* The case of C7: dataset present and nonempty, cooldown expired, no
\* backfill, cached maximum older than yesterday, Loader returns rows that
\* all lie after the cached maximum.
C7_Case ==
  /\ Called /\ PresentNonempty /\ ~WithinCooldown
  /\ CachedBefore.dated
  /\ ~(lastCall.start_date # NoStart
       /\ MinDate(CachedBefore) > lastCall.start_date + Day(BackfillToleranceDays))
  /\ MaxDate(CachedBefore) < Midnight(lastCall.at) - OneDay
  /\ lastCall.loaderOut = "rows"
  /\ \A d \in DateSet(lastCall.fetched) : d > MaxDate(CachedBefore)

\* C7: in that case the result holds every cached row and the new dates up
\* to the newest fetched date, the local dataset equals the result and
\* last_checked is the time of the call.
C7_IncrementalRefresh ==
  C7_Case
    => /\ DateSet(lastCall.ret.df) = DateSet(CachedBefore) \cup DateSet(lastCall.fetched)
       /\ \A i \in DOMAIN CachedBefore.rows :
            \E m \in DOMAIN lastCall.ret.df.rows : lastCall.ret.df.rows[m] = CachedBefore.rows[i]
       /\ MaxDate(lastCall.ret.df) = MaxDate(lastCall.fetched)
       /\ file = FileOf(lastCall.ret.df)
       /\ meta = MetaOf(lastCall.at)

\* C7 witness: the case, with the dataset grown by the call.
C7_Witness ==
  /\ C7_Case
  /\ Len(file.df.rows) > Len(CachedBefore.rows)
  /\ meta = MetaOf(lastCall.at)

\* The case of C8: no local dataset, and the Archive pull of the dataset
\* artifact goes through and brings a nonempty dataset.
C8_Case ==
  /\ Called
  /\ ~lastCall.preFile.exists
  /\ lastCall.preHubFile.exists /\ lastCall.netData
  /\ Len(lastCall.preHubFile.df.rows) > 0

\* last_checked as the call reads it after the attempt to pull the metadata
C8_LastCheckedAfterPull ==
  LET m == IF lastCall.netMeta /\ lastCall.preHubMeta.state # "absent"
           THEN lastCall.preHubMeta ELSE lastCall.preMeta
  IN  IF m.state = "ok" THEN m.last_checked ELSE DatetimeMin

\* C8 as stated: in that case the call hands back exactly the recovered
\* dataset and makes no Loader call, whatever the metadata record is.
C8_RecoveredNeverFetches ==
  C8_Case
    => /\ lastCall.ret = Returned(lastCall.preHubFile.df)
       /\ lastCall.loaderCalls = <<>>

\* C8 amended: in that case the call goes on as for a present dataset with the
\* recovered table as the cached table (never the Full Fetch of an absent
\* dataset), and when the last_checked it reads after the metadata pull is
\* less than the cooldown old it hands back exactly the recovered dataset
\* and makes no Loader call.
C8_RecoveredThenCooldown ==
  C8_Case
    => /\ lastCall.existing = lastCall.preHubFile.df
       /\ lastCall.path # "absent"
       /\ file.exists
       /\ (lastCall.at - C8_LastCheckedAfterPull < lastCall.cooldown
             => /\ lastCall.ret = Returned(lastCall.preHubFile.df)
                /\ lastCall.loaderCalls = <<>>
                /\ file = lastCall.preHubFile)

\* C8 witness: a recovery whose pulled metadata record is within the cooldown,
\* answered with the recovered dataset and no Loader call.
C8_Witness ==
  /\ C8_Case
  /\ lastCall.netMeta /\ lastCall.preHubMeta.state = "ok"
  /\ lastCall.preMeta.state # "ok"
  /\ lastCall.at - C8_LastCheckedAfterPull < lastCall.cooldown
  /\ lastCall.ret = Returned(lastCall.preHubFile.df)
  /\ lastCall.loaderCalls = <<>>
  /\ meta = lastCall.preHubMeta

\* The backfill condition of C9 on the cached table of the call.
C9_Trigger ==
  /\ lastCall.start_date # NoStart
  /\ CachedBefore.dated
  /\ MinDate(CachedBefore) > lastCall.start_date + Day(BackfillToleranceDays)

\* C9: with the dataset present and nonempty and the cooldown expired, the
\* call makes a Full Fetch (one Loader call with start = requested start) if
\* and only if a start is requested and the cached minimum date is later than
\* it by more than 5 days; a Full Fetch that returns rows overwrites the
\* local dataset with exactly those rows.
C9_BackfillTrigger ==
  (Called /\ PresentNonempty /\ ~WithinCooldown)
    => /\ C9_Trigger <=> (lastCall.path = "backfill" /\ lastCall.loaderCalls = <<lastCall.start_date>>)
       /\ ~C9_Trigger => \A i \in DOMAIN lastCall.loaderCalls :
                            lastCall.loaderCalls[i] = Midnight(MaxDate(CachedBefore) + OneDay)
       /\ (C9_Trigger /\ lastCall.loaderOut = "rows") => file = FileOf(lastCall.fetched)

\* C9 witness: a backfill whose rows replace a cached table they do not contain.
C9_Witness ==
  /\ Called /\ PresentNonempty /\ ~WithinCooldown
  /\ C9_Trigger
  /\ lastCall.loaderOut = "rows"
  /\ lastCall.loaderCalls = <<lastCall.start_date>>
  /\ file = FileOf(lastCall.fetched)
  /\ DateSet(CachedBefore) \cap DateSet(lastCall.fetched) = {}

\* C10: after a refresh that saved rows, the date range of the local dataset
\* contains its range before the call when the refresh was a Full Fetch, and
\* is the earlier dataset with dates added after its maximum when the
\* refresh was incremental.
C10_MonotonicCoverage ==
  (Called /\ PresentNonempty /\ ~WithinCooldown /\ CachedBefore.dated
     /\ lastCall.loaderOut = "rows")
    => IF lastCall.path = "backfill"
       THEN /\ MinDate(file.df) <= MinDate(CachedBefore)
            /\ MaxDate(file.df) >= MaxDate(CachedBefore)
       ELSE /\ DateSet(CachedBefore) \subseteq DateSet(file.df)
            /\ \A d \in DateSet(file.df) \ DateSet(CachedBefore) : d > MaxDate(CachedBefore)

\* The Loader was called in the finished call and returned (rows or none).
LoaderReturned == lastCall.loaderOut \in {"rows", "empty"}
FullFetchPath == lastCall.path \in {"absent", "empty", "backfill"}

\* C11: every call in which the Loader is called and returns without raising
\* leaves last_checked at the time of the call, whether rows came back or
\* not, a Full Fetch that returns zero rows included.
C11_ReturnedLoaderTouches ==
  (Called /\ LoaderReturned) => meta = MetaOf(lastCall.at)

\* The cached table of the call does not trigger the backfill check.
NoBackfill ==
  ~(/\ lastCall.start_date # NoStart
    /\ CachedBefore.dated
    /\ MinDate(CachedBefore) > lastCall.start_date + Day(BackfillToleranceDays))
Today == Midnight(lastCall.at)

\* C12: dataset present and nonempty, cooldown expired, no backfill, cached
\* maximum date before today and the day after it not later than now (the
\* cached maximum may be yesterday): the call makes one Loader call whose
\* start is the day after the cached maximum.
C12_ForwardFillCall ==
  (/\ Called /\ PresentNonempty /\ ~WithinCooldown /\ NoBackfill
   /\ CachedBefore.dated
   /\ MaxDate(CachedBefore) < Today
   /\ MaxDate(CachedBefore) + OneDay <= lastCall.at)
    => lastCall.loaderCalls = <<MaxDate(CachedBefore) + OneDay>>

\* The case of C13: dataset present and nonempty, cooldown expired, no
\* backfill, and the cached maximum is today or later, or the day after it
\* is still ahead of the clock.
C13_Case ==
  /\ Called /\ PresentNonempty /\ ~WithinCooldown /\ NoBackfill
  /\ CachedBefore.dated
  /\ \/ MaxDate(CachedBefore) >= Today
     \/ MaxDate(CachedBefore) + OneDay > lastCall.at

\* C13: in that case the call sets last_checked to the time of the call,
\* makes no Loader call, leaves the dataset as it is and hands back the
\* cached table.
C13_NothingToAskFor ==
  C13_Case
    => /\ meta = MetaOf(lastCall.at)
       /\ lastCall.loaderCalls = <<>>
       /\ file = lastCall.preFile
       /\ lastCall.ret = Returned(CachedBefore)

\* C13 witness: the cached maximum lies before today, the day after it is
\* still in the future, and the call moved last_checked forward.
C13_Witness ==
  /\ C13_Case
  /\ MaxDate(CachedBefore) < Today
  /\ MaxDate(CachedBefore) + OneDay > lastCall.at
  /\ lastCall.preMeta.state = "ok"
  /\ lastCall.preMeta.last_checked < lastCall.at
  /\ meta = MetaOf(lastCall.at)
  /\ lastCall.loaderCalls = <<>>

\* C14: in every reachable state the local dataset, when it exists and
\* loads, has each date once and its rows in ascending order of date.
C14_DatasetSortedUnique ==
  (file.exists /\ ~file.garbage /\ file.df.dated) => StrictlyAscending(file.df.rows)

\* The local and Archive artifacts the finished call worked on, i.e. after
\* its attempt to recover from the Archive, if it made one.
StartStores ==
  LET f == IF lastCall.recovered THEN lastCall.preHubFile ELSE lastCall.preFile
      m == IF lastCall.recovered /\ lastCall.netMeta /\ lastCall.preHubMeta.state # "absent"
           THEN lastCall.preHubMeta ELSE lastCall.preMeta
  IN  Stores(f, m, lastCall.preHubFile, lastCall.preHubMeta)

\* The finished call run again from the same artifacts, with the same Loader
\* result and the same local write results, but with its two Archive uploads
\* ending as given.
ReplayWithPushes(dataOk, metaOk) ==
  LET io == [lastCall.io EXCEPT !.pushData = dataOk, !.pushMeta = metaOk]
      out == [raised |-> lastCall.loaderOut = "raise", df |-> lastCall.fetched]
  IN  IF FullFetchPath
      THEN FetchAndSave(StartStores, out, io, lastCall.at)
      ELSE IF lastCall.path = "incremental"
      THEN IncrementalFetch(StartStores, lastCall.existing, out, io, lastCall.at)
      ELSE IF lastCall.path \in {"future", "fresh"}
      THEN TouchAndReturn(StartStores, lastCall.existing, io, lastCall.at)
      ELSE [StartStores EXCEPT !.ret = Returned(lastCall.existing)]

\* C15: the table a call hands back and the local dataset and last_checked it
\* leaves are the same whichever way its Archive uploads end, and a call on
\* an absent dataset whose pull of the dataset fails makes the Full Fetch
\* (one Loader call with the requested start).
C15_ArchiveFailuresNonFatal ==
  Called
    => /\ \A dataOk, metaOk \in BOOLEAN :
            LET R == ReplayWithPushes(dataOk, metaOk)
            IN  /\ R.ret = lastCall.ret
                /\ R.file = file
                /\ R.meta = meta
       /\ ~lastCall.ret.raised
       /\ (~lastCall.preFile.exists /\ ~(lastCall.netData /\ lastCall.preHubFile.exists))
            => /\ lastCall.path = "absent"
               /\ lastCall.loaderCalls = <<lastCall.start_date>>

\* C15 witness: a refresh that fetched rows and whose upload of the dataset
\* failed (the Archive keeps its old copy), with the rows saved locally,
\* last_checked set and the rows handed back all the same.
C15_Witness ==
  /\ Called /\ lastCall.loaderOut = "rows"
  /\ lastCall.pushes = <<"data">> /\ ~lastCall.io.pushData
  /\ hubFile = lastCall.preHubFile /\ hubFile # file
  /\ file = FileOf(lastCall.ret.df)
  /\ meta = MetaOf(lastCall.at)

\* C16: of two calls for the same key that overlap in time, at most one has
\* a Loader call under way at any moment, and once both have fetched rows
\* the local dataset holds every date either of them fetched.
C16_SingleFlight ==
  /\ ~(Pending(lastCall) /\ Pending(prev))
  /\ (lastCall.loaderOut = "rows" /\ prev.loaderOut = "rows"
        /\ lastCall.path = "incremental" /\ prev.path = "incremental")
       => (DateSet(lastCall.fetched) \cup DateSet(prev.fetched)) \subseteq DateSet(file.df)

\* The case of C17: a call on a present, nonempty dataset for which no
\* readable metadata record exists.
C17_Case ==
  /\ Called /\ PresentNonempty
  /\ lastCall.preMeta.state \in {"absent", "unreadable"}

\* C17 as stated: in that case the call never takes the short-circuit path,
\* whatever the cooldown is.
C17_AnyCooldown ==
  C17_Case => lastCall.path # "cooldown"

\* C17 amended: in that case last_checked reads as datetime.min, and for every
\* cooldown not longer than the time gone by since datetime.min the call does
\* not take the short-circuit path and goes on to the refresh evaluation.
C17_FirstCheckExpired ==
  (C17_Case /\ lastCall.cooldown <= lastCall.at - DatetimeMin)
    => lastCall.path \in {"backfill", "incremental", "future", "fresh"}

\* C17 witness: a dataset with an unreadable metadata record and a cooldown of
\* one day, on which the call went on to a forward-fill Loader call.
C17_Witness ==
  /\ C17_Case
  /\ lastCall.preMeta.state = "unreadable"
  /\ lastCall.cooldown = OneDay
  /\ lastCall.path = "incremental"
  /\ Len(lastCall.loaderCalls) = 1

\* The case of C18: no local dataset, and the pull of the dataset from the
\* Archive fails (no connection or nothing stored there).
C18_Case ==
  /\ Called
  /\ ~lastCall.preFile.exists
  /\ ~(lastCall.netData /\ lastCall.preHubFile.exists)

\* What C18 says apart from the pushes: one Loader call with the requested
\* start; rows are saved, last_checked is the time of the call and the rows
\* are handed back; a raising Loader gives an empty table and saves nothing.
C18_FetchSaveReturn ==
  /\ lastCall.loaderCalls = <<lastCall.start_date>>
  /\ lastCall.loaderOut = "rows"
       => /\ file = FileOf(lastCall.fetched)
          /\ meta = MetaOf(lastCall.at)
          /\ lastCall.ret = Returned(lastCall.fetched)
  /\ lastCall.loaderOut = "raise"
       => /\ lastCall.ret = Returned(EmptyDF)
          /\ LocalUnchanged
          /\ HubUnchanged
          /\ lastCall.pushes = <<>>

\* C18 as stated: in that case, with rows fetched, both the push of the
\* dataset and the push of the metadata are attempted.
C18_BothPushesAttempted ==
  C18_Case
    => /\ C18_FetchSaveReturn
       /\ lastCall.loaderOut = "rows" => lastCall.pushes = <<"data", "meta">>

\* C18 amended: in that case, with rows fetched, the push of the dataset is
\* attempted, and the push of the metadata is attempted after it exactly
\* when the push of the dataset went through.
C18_AbsentFullFetch ==
  C18_Case
    => /\ C18_FetchSaveReturn
       /\ lastCall.loaderOut = "rows"
            => lastCall.pushes = (IF lastCall.io.pushData THEN <<"data", "meta">> ELSE <<"data">>)

\* C18 witness: nothing local and nothing in the Archive, the Loader returns
\* rows, and afterwards dataset and metadata are stored locally and in the
\* Archive.
C18_Witness ==
  /\ C18_Case
  /\ ~lastCall.preHubFile.exists
  /\ lastCall.loaderOut = "rows"
  /\ lastCall.loaderCalls = <<lastCall.start_date>>
  /\ file = FileOf(lastCall.fetched) /\ meta = MetaOf(lastCall.at)
  /\ lastCall.pushes = <<"data", "meta">>
  /\ hubFile = file /\ hubMeta = meta

\* The case of C19: the local artifact exists and loads to zero records
\* (it does not parse, or it holds a header and no rows).
C19_Case ==
  /\ Called
  /\ lastCall.preFile.exists
  /\ Len(CachedBefore.rows) = 0

\* C19: in that case the call makes a Full Fetch (one Loader call with the
\* requested start, rows saved and handed back) without a pull from the
\* Archive, whatever last_checked and the cooldown are.
C19_EmptyFullFetch ==
  C19_Case
    => /\ lastCall.path = "empty"
       /\ lastCall.loaderCalls = <<lastCall.start_date>>
       /\ ~lastCall.recovered /\ ~lastCall.netData /\ ~lastCall.netMeta
       /\ lastCall.loaderOut = "rows"
            => /\ file = FileOf(lastCall.fetched)
               /\ meta = MetaOf(lastCall.at)
               /\ lastCall.ret = Returned(lastCall.fetched)
       /\ lastCall.loaderOut # "rows"
            => /\ LocalUnchanged
               /\ lastCall.ret = Returned(EmptyDF)

\* C19 witness: an artifact that does not parse, a last_checked within the
\* cooldown and a copy in the Archive, and the call fetched from the Loader
\* and replaced the artifact.
C19_Witness ==
  /\ C19_Case
  /\ lastCall.preFile.garbage
  /\ lastCall.preMeta.state = "ok"
  /\ lastCall.at - lastCall.preMeta.last_checked < lastCall.cooldown
  /\ lastCall.preHubFile.exists
  /\ lastCall.path = "empty"
  /\ lastCall.loaderOut = "rows"
  /\ file = FileOf(lastCall.fetched)

DataPushed == \E k \in DOMAIN lastCall.pushes : lastCall.pushes[k] = "data"
ZeroNewRows == lastCall.path = "incremental" /\ lastCall.loaderOut = "empty"

\* C20 as stated: a zero-new-rows call attempts the push of the metadata
\* only, and no call that leaves the local dataset as it found it pushes the
\* dataset.
C20_NoDataPushIfUnchanged ==
  Called
    => /\ ZeroNewRows => lastCall.pushes = <<"meta">>
       /\ file = lastCall.preFile => ~DataPushed

\* C20 amended: a zero-new-rows call attempts the push of the metadata only,
\* and the dataset is pushed only by a call whose Loader returned rows, after
\* it has written them (merged or as fetched) to the local dataset; such a
\* call pushes the dataset even when the rows written equal the rows that
\* were there.
C20_CheapSync ==
  Called
    => /\ ZeroNewRows => lastCall.pushes = <<"meta">>
       /\ DataPushed => (lastCall.loaderOut = "rows" /\ file = FileOf(lastCall.ret.df))
       /\ lastCall.loaderOut # "rows" => (~DataPushed /\ hubFile = lastCall.preHubFile)

\* C20 witness: a zero-new-rows call after which the Archive holds the new
\* metadata record and the dataset copy it held before.
C20_Witness ==
  /\ Called /\ ZeroNewRows
  /\ lastCall.pushes = <<"meta">>
  /\ meta = MetaOf(lastCall.at) /\ hubMeta = meta
  /\ lastCall.preHubMeta # hubMeta
  /\ hubFile = lastCall.preHubFile
  /\ hubFile # file
  /\ file = lastCall.preFile

\* The two pulls of a call on an absent dataset, as the Archive and the
\* network decide them.
DataPullSucceeds == lastCall.netData /\ lastCall.preHubFile.exists
MetaPullSucceeds == lastCall.netMeta /\ lastCall.preHubMeta.state # "absent"

\* C21: a call on an absent dataset counts as recovered exactly when the pull
\* of the dataset went through; the metadata record is pulled only then; and
\* when the pull of the metadata fails the call is still recovered and works
\* on the recovered dataset, with the metadata record it had locally.
C21_RecoveryProtocol ==
  (Called /\ ~lastCall.preFile.exists)
    => /\ lastCall.recovered <=> DataPullSucceeds
       /\ ~lastCall.recovered
            => /\ ~lastCall.netMeta
               /\ lastCall.path = "absent"
               /\ meta \in {lastCall.preMeta, MetaOf(lastCall.at)}
       /\ lastCall.recovered
            => /\ lastCall.path # "absent"
               /\ lastCall.existing = lastCall.preHubFile.df
               /\ file.exists
       /\ (lastCall.recovered /\ ~MetaPullSucceeds)
            => /\ meta \in {lastCall.preMeta, MetaOf(lastCall.at)}
               /\ (lastCall.path = "cooldown") <=>
                    (Len(lastCall.existing.rows) > 0 /\ WithinCooldown)

\* C21 witness: the dataset is pulled, the pull of the metadata record the
\* Archive holds fails, and the call goes on with the recovered dataset to a
\* forward-fill Loader call.
C21_Witness ==
  /\ Called /\ ~lastCall.preFile.exists
  /\ lastCall.recovered /\ DataPullSucceeds
  /\ lastCall.preHubMeta.state = "ok" /\ ~lastCall.netMeta
  /\ lastCall.existing = lastCall.preHubFile.df
  /\ lastCall.path = "incremental"
  /\ Len(lastCall.loaderCalls) = 1

MacroCalled == applied.fn = "fetch_data"

\* C22: fetch_data called with a start later than its end (the end given, or
\* defaulting to today) returns an empty table and asks neither provider.
C22_FutureStartEmpty ==
  (MacroCalled /\ applied.start > applied.end)
    => /\ applied.result = <<>>
       /\ applied.fredQuery = <<>>
       /\ applied.estatQuery = <<>>

\* C22 witness: a start after today with the end left to default to today.
C22_Witness ==
  /\ MacroCalled
  /\ ~applied.endGiven /\ applied.end = Midnight(applied.at)
  /\ applied.start > applied.at
  /\ applied.result = <<>>
  /\ applied.fredQuery = <<>> /\ applied.estatQuery = <<>>

AfterFailedCall == Called /\ prev # NoCall /\ prev.loaderOut = "raise"

\* C23 as stated: the call after a call whose Loader raised calls the Loader
\* again, however little time has gone by.
C23_AlwaysRetries ==
  AfterFailedCall => Len(lastCall.loaderCalls) = 1

\* C23 amended: the failed call leaves no last_checked of its own behind, and
\* the call after it calls the Loader again, however little time has gone
\* by, unless the dataset was absent and this call recovers it from the
\* Archive (it then goes by the recovered metadata record).
C23_RetriesUnlessRecovered ==
  AfterFailedCall
    => /\ lastCall.preMeta # MetaOf(prev.at)
       /\ lastCall.preFile = (IF prev.recovered THEN prev.preHubFile ELSE prev.preFile)
       /\ ~lastCall.recovered => Len(lastCall.loaderCalls) = 1
       /\ lastCall.recovered => prev.path = "absent"

\* C23 witness: a forward-fill whose Loader raised, and at the same tick a
\* second call that asks the Loader for the same start and gets rows.
C23_Witness ==
  /\ AfterFailedCall
  /\ prev.path = "incremental"
  /\ lastCall.at = prev.at
  /\ lastCall.path = "incremental"
  /\ lastCall.loaderCalls = prev.loaderCalls
  /\ lastCall.loaderOut = "rows"

\* The call met a metadata record and no dataset: the dataset has been saved
\* before and force_update has removed it since.
AfterForceUpdate ==
  /\ Called
  /\ ~lastCall.preFile.exists
  /\ lastCall.preMeta.state = "ok"

\* C24: the call after force_update has removed the dataset calls the Loader
\* and hands back what the Loader delivered, whatever the Archive holds.
C24_ForcedRefresh ==
  AfterForceUpdate
    => /\ Len(lastCall.loaderCalls) = 1
       /\ lastCall.loaderOut = "rows" => lastCall.ret = Returned(lastCall.fetched)

Merged == applied.fn = "merge"

\* C25: after the load, the merge and the reload of what was saved, the
\* dataset holds at most one record per calendar day: records of one day
\* that differ in the time of day have been given the same date key.
C25_OneRecordPerDay ==
  Merged
    => \A i, j \in DOMAIN applied.reloaded.rows :
         Midnight(applied.reloaded.rows[i].date) = Midnight(applied.reloaded.rows[j].date)
           => i = j

\* C26: no step removes a local metadata record: neither a get call nor
\* force_update, which removes the dataset only.
C26_MetaKept == [][meta.state # "absent" => meta'.state # "absent"]_vars

\* a get call has met a metadata record without a dataset and has returned
C26_Witness ==
  /\ Called
  /\ ~lastCall.preFile.exists
  /\ lastCall.preMeta.state # "absent"
  /\ ~lastCall.ret.raised
  /\ meta.state # "absent"

NonemptyFile(f) == f.exists /\ ~f.garbage /\ Len(f.df.rows) > 0
ReturnedFrom(c) == c.loaderOut \in {"rows", "empty"}

\* C28: while the dataset stays present and nonempty, two calls whose Loader
\* returned without raising lie at least the cooldown apart, whatever start
\* is requested.
C28_LoaderCallsSpaced ==
  (/\ Called /\ prev # NoCall
   /\ NonemptyFile(prev.preFile) /\ NonemptyFile(lastCall.preFile) /\ NonemptyFile(file)
   /\ ReturnedFrom(prev) /\ ReturnedFrom(lastCall))
    => lastCall.at - prev.at >= lastCall.cooldown

\* The earlier call was a Full Fetch for a requested start that saved a table
\* whose minimum date is still more than the tolerance after that start.
SavedShortOfStart ==
  /\ Called /\ prev # NoCall
  /\ prev.path \in {"absent", "empty", "backfill"}
  /\ prev.start_date # NoStart
  /\ prev.loaderOut = "rows"
  /\ prev.fetched.dated
  /\ lastCall.preFile = FileOf(prev.fetched)
  /\ MinDate(prev.fetched) > prev.start_date + Day(BackfillToleranceDays)

\* C29: after a Full Fetch (the backfill one included) has saved a table that
\* still begins more than the tolerance after the requested start, a later
\* call with the same start whose cooldown has expired is a backfill Full
\* Fetch again, with one Loader call from the requested start, and not a
\* forward-fill.
C29_BackfillAgain ==
  (SavedShortOfStart /\ lastCall.start_date = prev.start_date /\ ~WithinCooldown)
    => /\ lastCall.path = "backfill"
       /\ lastCall.loaderCalls = <<lastCall.start_date>>

\* a backfill that saved such a table is followed by a backfill that saves
\* one again
C29_Witness ==
  /\ SavedShortOfStart /\ ~WithinCooldown
  /\ prev.path = "backfill"
  /\ lastCall.path = "backfill"
  /\ lastCall.loaderOut = "rows"
  /\ MinDate(lastCall.fetched) > lastCall.start_date + Day(BackfillToleranceDays)

\* The call has put its own last_checked into the Archive.
MetaPublished ==
  /\ Called
  /\ hubMeta = MetaOf(lastCall.at)
  /\ hubMeta # lastCall.preHubMeta

\* C30: when the Archive's metadata record carries the last_checked of a
\* call, the Archive's dataset is the local dataset as that call left it,
\* whichever pushes have failed before.
C30_MirrorConsistent ==
  MetaPublished => hubFile = file

\* C31: a call that found the local dataset present and nonempty leaves it
\* present and nonempty, whatever the Loader did and on whichever path.
C31_DatasetNotDestroyed ==
  (Called /\ NonemptyFile(lastCall.preFile)) => NonemptyFile(file)

\* a backfill Full Fetch whose Loader gave nothing has left the dataset alone
C31_Witness ==
  /\ Called /\ NonemptyFile(lastCall.preFile)
  /\ lastCall.path = "backfill"
  /\ lastCall.loaderOut \in {"empty", "raise"}
  /\ file = lastCall.preFile

\* C32: a call asks the Loader at most once, on whichever path it runs.
C32_LoaderAtMostOnce ==
  Called => Len(lastCall.loaderCalls) <= 1

\* a call that recovered the dataset from the Archive and went on to a
\* backfill Full Fetch has asked the Loader once
C32_Witness ==
  /\ Called
  /\ lastCall.recovered
  /\ lastCall.path = "backfill"
  /\ Len(lastCall.loaderCalls) = 1

IncrementalPath == Called /\ lastCall.path = "incremental"

\* C33: a call that asks the Loader on the incremental path found the cached
\* maximum before yesterday's midnight, asked from the day after the cached
\* maximum, and that day was not ahead of the clock; no call takes the
\* branch for a next_day in the future.
C33_ForwardFillGuard ==
  Called
    => /\ lastCall.path # "future"
       /\ lastCall.path = "incremental"
            => /\ MaxDate(lastCall.existing) < Today - OneDay
               /\ lastCall.loaderCalls = <<Midnight(MaxDate(lastCall.existing) + OneDay)>>
               /\ MaxDate(lastCall.existing) + OneDay <= lastCall.at

\* an incremental call on a dataset whose last row carries a time of day
C33_Witness ==
  /\ IncrementalPath
  /\ MaxDate(lastCall.existing) # Midnight(MaxDate(lastCall.existing))
  /\ lastCall.loaderCalls = <<Midnight(MaxDate(lastCall.existing) + OneDay)>>

UndatedCached == Called /\ PresentNonempty /\ ~CachedBefore.dated

WriteFailed == Called /\ prev # NoCall /\ prev.loaderOut = "rows" /\ ~prev.io.csvOk

\* What the first call had on disk once its recovery attempt was over.
FileRead == IF prev.recovered THEN prev.preHubFile ELSE prev.preFile
MetaRead ==
  IF prev.recovered /\ prev.netMeta /\ prev.preHubMeta.state # "absent"
  THEN prev.preHubMeta ELSE prev.preMeta

\* the failed write changed nothing: the next call finds the dataset, the
\* metadata record and the Archive as the failed call had them
NothingAdvanced ==
  /\ lastCall.preFile = FileRead
  /\ lastCall.preMeta = MetaRead
  /\ lastCall.preHubFile = prev.preHubFile
  /\ lastCall.preHubMeta = prev.preHubMeta

\* C35 as stated: after a call whose local dataset write failed, last_checked
\* and the Archive are as before, and the next call does not stop at the
\* cooldown check.
C35_NextCallNoCooldown ==
  WriteFailed => (NothingAdvanced /\ lastCall.path # "cooldown")

\* C35, amended: after a call whose local dataset write failed, last_checked
\* and the Archive are as before; the next call asks the Loader again unless
\* the dataset is absent and it recovers it from the Archive.
C35_RetryUnlessRecovered ==
  WriteFailed
    => /\ NothingAdvanced
       /\ ~lastCall.recovered
            => (lastCall.path # "cooldown" /\ Len(lastCall.loaderCalls) = 1)

\* an incremental call fails to write the merged table, and the next call
\* asks the Loader for the same days again
C35_Witness ==
  /\ WriteFailed
  /\ prev.path = "incremental"
  /\ lastCall.path = "incremental"
  /\ lastCall.loaderCalls = prev.loaderCalls

====
